---- MODULE Spec2Model ----
(***************************************************************************)
(* Model of the backtesting engine of quant_trading_project               *)
(* (backtest/backtester.py, class Backtester) and of the batch driver      *)
(* main_10year.py, and of the strategies of strategies/.  Five             *)
(* specifications:                                                         *)
(*     Spec           one run_backtest over all small bar series/signals   *)
(*     SpecCalls      one run_backtest over arguments of every kind, then  *)
(*                    calculate_metrics                                    *)
(*     SpecInstances  several invocations on two Backtester objects        *)
(*     SpecDriver     the loop over the test cases of main_10year          *)
(*     SpecStrategies generate_signals of a shipped strategy, then         *)
(*                    run_backtest on the table it returned                *)
(*                                                                         *)
(* Numbers.  The engine computes on IEEE doubles held in pandas columns.   *)
(* A number is modelled as a pair <<n, d>>:                                *)
(*     d > 0          the rational n/d in lowest terms                     *)
(*     <<0, 0>>       NaN                                                  *)
(*     <<1, 0>>       +inf          <<-1, 0>>   -inf                       *)
(* Arithmetic is exact (rounding error of doubles is not modelled); NaN    *)
(* and inf propagate as in IEEE 754, and every comparison with NaN is      *)
(* false.                                                                  *)
(*                                                                         *)
(* Bars are indexed 1..n here; bar t of the documentation (0-based) is     *)
(* index t+1.  The timestamp of a bar is its index.                        *)
(***************************************************************************)
EXTENDS Integers, Sequences, FiniteSets

VARIABLES
    data, strategy, initial_capital,  \* arguments of the latest run_backtest
    self,                             \* the instance it was invoked on
    pc, ret, err,                     \* how it ended: result or exception
    results,                          \* self.results of every instance
    log,                              \* lines logged per level
    inflight,                         \* invocations begun and not yet ended
    out,                              \* latest output of print_summary / plot_results
    metrics,                          \* latest value of calculate_metrics
    observed,                         \* every invocation ended so far with its outcome
    calls,                            \* number of invocations ended so far
    driver,                           \* main_10year: loop position and collections
    shipped                           \* the shipped strategy object whose signals are run

vars == <<data, strategy, initial_capital, self, pc, ret, err, results, log,
          inflight, out, metrics, observed, calls, driver, shipped>>

(***************************************************************************)
(* Bounds of the model                                                     *)
(***************************************************************************)
MaxBars == 3

\* Invocations of run_backtest in a run of several.
MaxCalls == 3

\* Warnings logged by plot_results.
MaxWarnings == 1

\* Test cases (symbol, year) of the batch driver.
MaxCases == 6

(***************************************************************************)
(* Extended rational arithmetic                                            *)
(***************************************************************************)
Abs(x) == IF x < 0 THEN -x ELSE x

Sgn(x) == IF x < 0 THEN -1 ELSE IF x > 0 THEN 1 ELSE 0

RECURSIVE GCD(_, _)
GCD(a, b) == IF b = 0 THEN a ELSE GCD(b, a % b)

Norm(n, d) ==
    IF d = 0 THEN <<Sgn(n), 0>>
    ELSE LET g == GCD(Abs(n), Abs(d))
         IN  <<(Sgn(d) * n) \div g, Abs(d) \div g>>

R(n, d) == Norm(n, d)

NaN == <<0, 0>>

Zero == <<0, 1>>

One == <<1, 1>>

IsNaN(x) == x = NaN

IsFinite(x) == x[2] # 0

Add(a, b) ==
    IF a[2] = 0 /\ b[2] = 0
    THEN (IF a = b THEN a ELSE NaN)
    ELSE Norm(a[1] * b[2] + b[1] * a[2], a[2] * b[2])

Neg(a) == <<-a[1], a[2]>>

Sub(a, b) == Add(a, Neg(b))

Mul(a, b) == Norm(a[1] * b[1], a[2] * b[2])

Div(a, b) == Norm(a[1] * b[2], a[2] * b[1])

Lt(a, b) ==
    /\ ~IsNaN(a)
    /\ ~IsNaN(b)
    /\ IF a[2] = 0 /\ b[2] = 0 THEN a[1] < b[1]
       ELSE IF a[2] = 0 THEN a[1] < 0
       ELSE IF b[2] = 0 THEN b[1] > 0
       ELSE a[1] * b[2] < b[1] * a[2]

Gt(a, b) == Lt(b, a)

Le(a, b) == ~IsNaN(a) /\ ~IsNaN(b) /\ ~Lt(b, a)

Eq(a, b) == ~IsNaN(a) /\ ~IsNaN(b) /\ a = b

Ne(a, b) == ~Eq(a, b)

(***************************************************************************)
(* pandas column operations used by run_backtest.  A column is a function  *)
(* from the bar indices 1..n to numbers, held as the sequence of its       *)
(* entries.                                                                *)
(***************************************************************************)

\* The column with the entries f[1], ..., f[n].
Series(f) == SubSeq(f, 1, Len(f))

\* Series.fillna(v): every NaN entry becomes v.
fillna(s, v) == Series([t \in DOMAIN s |-> IF IsNaN(s[t]) THEN v ELSE s[t]])

\* Series.replace({old: new}): entries equal to old become new, others stay.
replace(s, old, new) == Series([t \in DOMAIN s |-> IF Eq(s[t], old) THEN new ELSE s[t]])

\* float -> int conversion truncates toward zero.
Trunc(x) == <<Sgn(x[1]) * (Abs(x[1]) \div x[2]), 1>>

\* Series.astype(int) on a column without NaN/inf.
astype_int(s) == Series([t \in DOMAIN s |-> Trunc(s[t])])

\* Series.shift(1): entry t is the previous entry, the first is NaN.
shift(s) == Series([t \in DOMAIN s |-> IF t = 1 THEN NaN ELSE s[t - 1]])

\* Series.pct_change(): s[t] / s[t-1] - 1, NaN at the first bar.
pct_change(s) == Series([t \in DOMAIN s |-> IF t = 1 THEN NaN ELSE Sub(Div(s[t], s[t - 1]), One)])

\* Element-wise product and 1 + s.
col_mul(a, b) == Series([t \in DOMAIN a |-> Mul(a[t], b[t])])

col_add1(s) == Series([t \in DOMAIN s |-> Add(One, s[t])])

col_scale(s, k) == Series([t \in DOMAIN s |-> Mul(s[t], k)])

\* The non-NaN entries among the first t entries of s.
Valid(s, t) == {u \in 1..t : ~IsNaN(s[u])}

\* Product of the non-NaN entries among the first t entries.
RECURSIVE ProdSkipNa(_, _)
ProdSkipNa(s, t) ==
    IF t = 0 THEN One
    ELSE IF IsNaN(s[t]) THEN ProdSkipNa(s, t - 1)
    ELSE Mul(ProdSkipNa(s, t - 1), s[t])

\* Series.cumprod() (skipna=True): NaN entries stay NaN and are skipped by
\* the running product.
cumprod(s) == Series([t \in DOMAIN s |-> IF IsNaN(s[t]) THEN NaN ELSE ProdSkipNa(s, t)])

\* Maximum / minimum of the non-NaN entries among the first t; NaN if none.
RECURSIVE MaxSkipNa(_, _)
MaxSkipNa(s, t) ==
    IF t = 0 THEN NaN
    ELSE LET m == MaxSkipNa(s, t - 1)
         IN  IF IsNaN(s[t]) THEN m
             ELSE IF IsNaN(m) \/ Gt(s[t], m) THEN s[t] ELSE m

RECURSIVE MinSkipNa(_, _)
MinSkipNa(s, t) ==
    IF t = 0 THEN NaN
    ELSE LET m == MinSkipNa(s, t - 1)
         IN  IF IsNaN(s[t]) THEN m
             ELSE IF IsNaN(m) \/ Lt(s[t], m) THEN s[t] ELSE m

\* Series.expanding().max() (min_periods = 1).
expanding_max(s) == Series([t \in DOMAIN s |-> MaxSkipNa(s, t)])

\* Series.min() (skipna=True).
col_min(s) == MinSkipNa(s, Len(s))

RECURSIVE SumSkipNa(_, _)
SumSkipNa(s, t) ==
    IF t = 0 THEN Zero
    ELSE IF IsNaN(s[t]) THEN SumSkipNa(s, t - 1)
    ELSE Add(SumSkipNa(s, t - 1), s[t])

\* Number of non-NaN entries.
count(s) == Cardinality(Valid(s, Len(s)))

\* Series.mean() (skipna=True): NaN when there is no valid entry.
mean(s) == Div(SumSkipNa(s, Len(s)), <<count(s), 1>>)

\* Sample variance (ddof = 1) of the non-NaN entries: NaN when fewer than
\* two entries are valid.
RECURSIVE SumSqDev(_, _, _)
SumSqDev(s, m, t) ==
    IF t = 0 THEN Zero
    ELSE IF IsNaN(s[t]) THEN SumSqDev(s, m, t - 1)
    ELSE Add(SumSqDev(s, m, t - 1), Mul(Sub(s[t], m), Sub(s[t], m)))

variance(s) ==
    IF count(s) < 2 THEN NaN
    ELSE Div(SumSqDev(s, mean(s), Len(s)), <<count(s) - 1, 1>>)

\* Series.iloc[-1].
last(s) == s[Len(s)]

(***************************************************************************)
(* Encoding of x * sqrt(k).  The Sharpe ratio and the volatility are       *)
(* multiples of a square root and so not rational; such a value v is held  *)
(* as its signed square sign(v) * v^2, which is rational, and from which   *)
(* v is recovered uniquely (v = 0 iff the encoding is 0, NaN iff NaN, and  *)
(* the order is preserved).                                                *)
(***************************************************************************)
SignedSq(x) == IF Lt(x, Zero) THEN Neg(Mul(x, x)) ELSE Mul(x, x)

\* np.sqrt(252): trading days per year.
TradingDays == 252

(***************************************************************************)
(* Backtester.run_backtest                                                 *)
(***************************************************************************)

\* The last signal row at or before bar t; NaN if there is none.
RECURSIVE CarriedRow(_, _)
CarriedRow(signals, t) ==
    IF t = 0 THEN NaN
    ELSE IF t \in DOMAIN signals THEN signals[t]
    ELSE CarriedRow(signals, t - 1)

\* A join that carries the previous signal forward into unmatched bars.
join_left_ffill(index, signals) == Series([t \in index |-> CarriedRow(signals, t)])

\* df.join(signals, how='left'): every bar of df is kept; a bar without a
\* row in the signal table gets NaN in the joined column.
join_left(index, signals) ==
    Series([t \in index |-> IF t \in DOMAIN signals THEN signals[t] ELSE NaN])

\* df['signal'] = signals for a Series: the Series is aligned on df's index,
\* labels missing from it give NaN.
setitem_aligned(index, signals) ==
    Series([t \in index |-> IF t \in DOMAIN signals THEN signals[t] ELSE NaN])

\* Lines 37-41: the signal column of df.
signal_column(Close, strat) ==
    IF strat.kind = "table"
    THEN join_left(DOMAIN Close, strat.signal)
    ELSE setitem_aligned(DOMAIN Close, strat.signal)

\* Line 44: df['signal'].fillna(0).replace({-1: 0}).astype(int)
position_eligible(signal) == astype_int(replace(fillna(signal, Zero), R(-1, 1), Zero))

\* Position without the one-bar lag.
position_column_nolag(signal) == position_eligible(signal)

\* Position lagged by two bars.
position_column_lag2(signal) == fillna(shift(shift(position_eligible(signal))), Zero)

\* Line 45: .shift(1).fillna(0)
position_column(signal) == fillna(shift(position_eligible(signal)), Zero)

\* Line 48 / 49: (1 + r).cumprod() * initial_capital
compound(r, capital) == col_scale(cumprod(col_add1(r)), capital)

\* Line 53: (equity_curve - rolling_max) / rolling_max
drawdown_column(equity, rmax) ==
    Series([t \in DOMAIN equity |-> Div(Sub(equity[t], rmax[t]), rmax[t])])

\* A total return left as a fraction, not scaled to a percentage.
pct_total_fraction(curve, capital) == Sub(Div(last(curve), capital), One)

\* Line 56 / 57: (curve.iloc[-1] / initial_capital - 1) * 100
pct_total(curve, capital) == Mul(Sub(Div(last(curve), capital), One), R(100, 1))

\* Lines 60-63: mean / std * sqrt(252) unless std == 0 (signed square).
sharpe(sr) ==
    IF Ne(variance(sr), Zero)
    THEN Mul(Div(SignedSq(mean(sr)), variance(sr)), R(TradingDays, 1))
    ELSE Zero

\* Line 66: std * sqrt(252) * 100 (signed square).
annual_volatility(sr) == Mul(Mul(variance(sr), R(TradingDays, 1)), R(100 * 100, 1))

\* Lines 69-70: the rows with strategy_returns > 0, resp. < 0.
winning_trades(sr) == {t \in DOMAIN sr : Gt(sr[t], Zero)}

losing_trades(sr) == {t \in DOMAIN sr : Lt(sr[t], Zero)}

\* Win rate over all bars instead of over the winning and losing ones.
win_rate_all_bars(sr) ==
    LET w == Cardinality(winning_trades(sr))
    IN  IF Len(sr) > 0 THEN Mul(R(w, Len(sr)), R(100, 1)) ELSE Zero

\* Line 71.
win_rate_of(sr) ==
    LET w == Cardinality(winning_trades(sr))
        l == Cardinality(losing_trades(sr))
    IN  IF w + l > 0 THEN Mul(R(w, w + l), R(100, 1)) ELSE Zero

\* Lines 37-53: the derived per-bar table.
backtest_table(Close, strat, capital) ==
    LET signal   == signal_column(Close, strat)
        position == position_column(signal)
        returns  == pct_change(Close)
        sret     == col_mul(position, returns)
        equity   == compound(sret, capital)
        bench    == compound(returns, capital)
        rmax     == expanding_max(equity)
    IN  [Close            |-> Close,
         signal           |-> signal,
         position         |-> position,
         returns          |-> returns,
         strategy_returns |-> sret,
         equity_curve     |-> equity,
         benchmark_curve  |-> bench,
         rolling_max      |-> rmax,
         drawdown         |-> drawdown_column(equity, rmax)]

\* Lines 55-82: the result record.
backtest_results(Close, strat, capital) ==
    LET df == backtest_table(Close, strat, capital)
    IN  [total_return     |-> pct_total(df.equity_curve, capital),
         benchmark_return |-> pct_total(df.benchmark_curve, capital),
         sharpe_ratio     |-> sharpe(df.strategy_returns),
         max_drawdown     |-> Mul(col_min(df.drawdown), R(100, 1)),
         volatility       |-> annual_volatility(df.strategy_returns),
         win_rate         |-> win_rate_of(df.strategy_returns),
         data             |-> df,
         initial_capital  |-> capital]

(***************************************************************************)
(* Backtester.calculate_metrics                                            *)
(***************************************************************************)

\* Lines 102-123: the metrics of a sequence of period returns.  volatility
\* and sharpe_ratio are multiples of sqrt(252) and held as signed squares.
calculate_metrics(returns) ==
    LET total_return == Sub(ProdSkipNa(col_add1(returns), Len(returns)), One)
        avg_return   == Mul(mean(returns), R(TradingDays, 1))
        volatility   == Mul(variance(returns), R(TradingDays, 1))
        equity_curve == cumprod(col_add1(returns))
        rolling_max  == expanding_max(equity_curve)
        drawdowns    == drawdown_column(equity_curve, rolling_max)
        wins         == Cardinality({t \in DOMAIN returns : Gt(returns[t], Zero)})
    IN  [total_return  |-> Mul(total_return, R(100, 1)),
         annual_return |-> avg_return,
         volatility    |-> Mul(volatility, R(100 * 100, 1)),
         sharpe_ratio  |-> IF Ne(volatility, Zero)
                           THEN Div(SignedSq(avg_return), volatility)
                           ELSE Zero,
         max_drawdown  |-> Mul(col_min(drawdowns), R(100, 1)),
         win_rate      |-> Mul(Div(R(wins, 1), R(Len(returns), 1)), R(100, 1))]

(***************************************************************************)
(* Failures of run_backtest, the cache self.results, the reporting methods *)
(***************************************************************************)

\* Backtester objects.
Instances == {"a", "b"}

\* The columns of a bar series as the data fetcher delivers it.
BarColumns == {"Open", "High", "Low", "Close", "Volume"}

\* A bar series with the Close prices c.
Bars(c) == [Close |-> c, columns |-> BarColumns, index |-> Len(c)]

\* A bar series of n bars that has no Close column.
BarsWithoutClose(n) == [Close |-> <<>>, columns |-> BarColumns \ {"Close"}, index |-> n]

\* The exception that ends run_backtest(strategy, d, ...), "none" when it
\* returns.  s.convention tells how the caller hands the strategy over:
\*   "function"      a callable as the first argument (strategy_func);
\*   "object"        a strategy object (with generate_signals) as the
\*                   first argument: line 34 calls it, it is not callable;
\*   "strategy_obj"  a strategy object under the keyword strategy_obj, as
\*                   main.py and main_10year.py do: the keyword lands in
\*                   **kwargs and strategy_func has no value.
\* s.kind = "raises" is a strategy whose signal generation raises; a signal
\* table with a column named like a column of d makes df.join raise;
\* df['Close'] raises without that column; iloc[-1] raises on no bars.
run_failure(d, s) ==
    IF s.convention = "strategy_obj" THEN "TypeError"
    ELSE IF s.convention = "object" THEN "TypeError"
    ELSE IF s.kind = "raises" THEN "StrategyError"
    ELSE IF s.kind = "table" /\ s.aux \cap d.columns # {} THEN "ValueError"
    ELSE IF "Close" \notin d.columns THEN "KeyError"
    ELSE IF d.index = 0 THEN "IndexError"
    ELSE "none"

\* Whether the failure passes through the except clause of run_backtest
\* (one logger.error line): every failure inside the try block, that is
\* every one but the failed binding of the arguments.
logs_error(d, s) == run_failure(d, s) # "none" /\ s.convention # "strategy_obj"

\* An except clause that logs and swallows the error: the call returns None.
except_clause_swallow(f) == [pc |-> "returned", err |-> "none"]

\* Lines 88-90: the except clause re-raises the error it caught.
except_clause(f) == [pc |-> "raised", err |-> f]

\* A cache that is cleared by a failing invocation.
stored_results_cleared(prev, f, r) == IF f = "none" THEN r ELSE <<>>

\* A cache that keeps the first result and ignores later ones.
stored_results_first(prev, f, r) == IF f = "none" /\ prev = <<>> THEN r ELSE prev

\* Line 84: self.results = results is reached only when nothing raised;
\* otherwise self.results keeps its value prev.
stored_results(prev, f, r) == IF f = "none" THEN r ELSE prev

\* A results attribute shared by all instances (a class attribute).
instance_results_shared(caches, i, new) == [j \in Instances |-> new]

\* Lines 17, 84: results is an attribute of the instance.
instance_results(caches, i, new) == [caches EXCEPT ![i] = new]

\* Lines 172-182: the figures print_summary prints.
summary_lines(r) ==
    [total_return     |-> r.total_return,
     benchmark_return |-> r.benchmark_return,
     excess_return    |-> Sub(r.total_return, r.benchmark_return),
     sharpe_ratio     |-> r.sharpe_ratio,
     max_drawdown     |-> r.max_drawdown,
     volatility       |-> r.volatility,
     win_rate         |-> r.win_rate,
     initial_capital  |-> r.initial_capital,
     final_capital    |-> last(r.data.equity_curve)]

\* Lines 138-150: the series plot_results draws.
plotted_series(r) ==
    [equity_curve     |-> r.data.equity_curve,
     benchmark_curve  |-> r.data.benchmark_curve,
     drawdown         |-> col_scale(r.data.drawdown, R(100, 1)),
     strategy_returns |-> col_scale(r.data.strategy_returns, R(100, 1))]

(***************************************************************************)
(* Inputs of an invocation                                                 *)
(***************************************************************************)

\* Close prices of the bars (positive currency amounts).
Prices == {R(1, 1), R(2, 1)}

\* Values a strategy puts in its signal column: short (-2, -1, -1/2),
\* flat (0) and long (1).
SigVals == {R(-2, 1), R(-1, 1), R(-1, 2), Zero, One}

\* Starting capital passed to run_backtest.
InitialCapitals == {R(10, 1)}

\* Bar series of 0..MaxBars bars.
BarSeries == UNION {[1..n -> Prices] : n \in 0..MaxBars}

\* What a strategy returns for a series of n bars: a table with a signal
\* column ("table") or a bare signal Series ("series"), holding a row for
\* some of the bar timestamps.
Signals(n) == UNION {[rows -> SigVals] : rows \in SUBSET (1..n)}

\* A plain function handed over as strategy_func; aux are the names of the
\* further columns of its signal table.
Strategies(n) ==
    [kind : {"table", "series"}, signal : Signals(n), aux : {{}}, convention : {"function"}]

\* The engine state that no invocation has touched yet.
NoLog == [info |-> 0, warning |-> 0, error |-> 0]

\* The names of the columns run_backtest derives (lines 41-53).
DerivedColumns ==
    {"signal", "position", "returns", "strategy_returns", "equity_curve",
     "benchmark_curve", "rolling_max", "drawdown"}

\* A callee that adds its columns to the caller's table.
caller_table_aliased(d, derived) == [d EXCEPT !.columns = @ \cup derived]

\* Line 37 (df = data.copy()), as line 82 of simple_moving_average.py and
\* line 19 of every generate_signals
\* (signals = pd.DataFrame(index=data.index)): the columns a call derives
\* go to a table of its own, the caller's table is what it was.
caller_table(d, derived) == d

\* No shipped strategy object is involved: the caller passes a signal table.
NoStrategy == [name |-> "none"]

FreshEngine ==
    /\ results = [i \in Instances |-> <<>>]
    /\ err = "none"
    /\ log = NoLog
    /\ inflight = [i \in Instances |-> <<>>]
    /\ out = <<>>
    /\ metrics = <<>>
    /\ observed = {}
    /\ calls = 0

\* The batch driver before its first test case.
DriverStart ==
    driver = [idx |-> 1, printed |-> <<>>, attempted |-> {}, completed |-> {},
              all_results |-> <<>>, errors |-> 0]

Init ==
    /\ data \in {Bars(c) : c \in BarSeries}
    /\ strategy \in Strategies(Len(data.Close))
    /\ initial_capital \in InitialCapitals
    /\ self = "a"
    /\ pc = "ready"
    /\ ret = <<>>
    /\ FreshEngine
    /\ DriverStart
    /\ shipped = NoStrategy

\* What an invocation with the arguments (d, s, c) on instance i ended in.
Observation(d, s, c, status, error, r) ==
    [data |-> d, strategy |-> s, initial_capital |-> c,
     pc |-> status, err |-> error, ret |-> r]

\* run_backtest(s, d, c) on instance i runs to line 86: the result is
\* cached in self.results, logged and returned.
Returns(i, d, s, c) ==
    /\ run_failure(d, s) = "none"
    /\ LET r == backtest_results(d.Close, s, c)
       IN  ret' = <<r>>
    /\ pc' = "returned"
    /\ err' = "none"
    /\ results' = instance_results(results, i, stored_results(results[i], "none", ret'))
    /\ log' = [log EXCEPT !.info = @ + 1]
    /\ observed' = observed \cup {Observation(d, s, c, pc', err', ret')}
    /\ calls' = calls + 1

\* run_backtest(s, d, c) on instance i raises: the except clause logs and
\* re-raises, self.results is not assigned.
Raises(i, d, s, c) ==
    /\ run_failure(d, s) # "none"
    /\ ret' = <<>>
    /\ pc' = except_clause(run_failure(d, s)).pc
    /\ err' = except_clause(run_failure(d, s)).err
    /\ results' = instance_results(results, i,
                                   stored_results(results[i], run_failure(d, s), ret'))
    /\ log' = IF logs_error(d, s) THEN [log EXCEPT !.error = @ + 1] ELSE log
    /\ observed' = observed \cup {Observation(d, s, c, pc', err', ret')}
    /\ calls' = calls + 1

RunBacktestReturn ==
    /\ pc = "ready"
    /\ Returns(self, data, strategy, initial_capital)
    /\ data' = caller_table(data, DerivedColumns)
    /\ UNCHANGED <<strategy, initial_capital, self, inflight, out, metrics, driver, shipped>>

RunBacktestRaise ==
    /\ pc = "ready"
    /\ Raises(self, data, strategy, initial_capital)
    /\ data' = caller_table(data, {})
    /\ UNCHANGED <<strategy, initial_capital, self, inflight, out, metrics, driver, shipped>>

RunBacktest == RunBacktestReturn \/ RunBacktestRaise

Next == RunBacktest

Spec == Init /\ [][Next]_vars

(***************************************************************************)
(* One invocation on arguments of every kind, and calculate_metrics on the *)
(* returns of its result                                                   *)
(***************************************************************************)

\* A strategy that is long at each of n bars, as a signal table.
AlwaysLong(n) ==
    [kind |-> "table", signal |-> [t \in 1..n |-> One], aux |-> {}, convention |-> "function"]

UpDownBars == Bars(<<R(1, 1), R(2, 1), R(1, 1)>>)

DownUpBars == Bars(<<R(2, 1), R(1, 1), R(2, 1)>>)

\* Number of bars of UpDownBars and DownUpBars.
CallBars == Len(UpDownBars.Close)

\* Bar series: two well-formed ones, one without bars, one without Close.
CallBarSeries == {UpDownBars, DownUpBars, Bars(<<>>), BarsWithoutClose(CallBars)}

\* Strategies: a signal table with or without further columns, a bare
\* signal Series, a strategy that raises; each handed over in each of the
\* three ways.
CallStrategies ==
    {s \in [kind       : {"table", "series", "raises"},
            signal     : {AlwaysLong(CallBars).signal},
            aux        : {{}, {"positions", "rsi"}, {"positions", "Close"}},
            convention : {"function", "object", "strategy_obj"}] :
        s.kind # "table" => s.aux = {}}

CallCapitals == {R(10, 1), Zero, R(-10, 1)}

InitCalls ==
    /\ data \in CallBarSeries
    /\ strategy \in CallStrategies
    /\ initial_capital \in CallCapitals
    /\ self = "a"
    /\ pc = "ready"
    /\ ret = <<>>
    /\ FreshEngine
    /\ DriverStart
    /\ shipped = NoStrategy

\* calculate_metrics(returns) on instance i, fed with a return column of
\* the run cached there: the strategy's returns or the benchmark's.
CalculateMetrics(i) ==
    /\ inflight[i] = <<>>
    /\ results[i] # <<>>
    /\ \E col \in {"strategy_returns", "returns"} :
          metrics' = <<[returns |-> results[i][1].data[col],
                        values  |-> calculate_metrics(results[i][1].data[col])]>>
    /\ UNCHANGED <<data, strategy, initial_capital, self, pc, ret, err, results, log,
                   inflight, out, observed, calls, driver, shipped>>

NextCalls == RunBacktest \/ CalculateMetrics(self)

SpecCalls == InitCalls /\ [][NextCalls]_vars

(***************************************************************************)
(* Several invocations, on one instance and on two                         *)
(*                                                                         *)
(* run_backtest touches the instance only when it assigns self.results     *)
(* (line 84); all it computes before is local to the call.  An invocation  *)
(* is therefore taken in two steps, its call (Begin) and its end (Finish), *)
(* so that invocations on different instances overlap in every order.      *)
(* One instance runs one call at a time.                                   *)
(***************************************************************************)

\* The invocations the callers issue: two that return different results,
\* one whose strategy raises, one on a series without bars.
Calls ==
    LET call(d, s, c) == [data |-> d, strategy |-> s, initial_capital |-> c]
        long          == AlwaysLong(CallBars)
        capital       == R(10, 1)
    IN  { call(UpDownBars, long, capital),
          call(DownUpBars, long, capital),
          call(UpDownBars, [long EXCEPT !.kind = "raises"], capital),
          call(Bars(<<>>), AlwaysLong(0), capital) }

InitInstances ==
    /\ data = Bars(<<>>)
    /\ strategy = AlwaysLong(0)
    /\ initial_capital = R(10, 1)
    /\ self = "a"
    /\ pc = "idle"
    /\ ret = <<>>
    /\ FreshEngine
    /\ DriverStart
    /\ shipped = NoStrategy

\* Invocations begun and not yet ended.
InFlight == {i \in Instances : inflight[i] # <<>>}

\* A caller invokes run_backtest on instance i.
Begin(i) ==
    /\ inflight[i] = <<>>
    /\ calls + Cardinality(InFlight) < MaxCalls
    /\ \E c \in Calls : inflight' = [inflight EXCEPT ![i] = <<c>>]
    /\ UNCHANGED <<data, strategy, initial_capital, self, pc, ret, err, results, log,
                   out, metrics, observed, calls, driver, shipped>>

\* The invocation on instance i ends.
Ended(i) ==
    /\ data' = inflight[i][1].data
    /\ strategy' = inflight[i][1].strategy
    /\ initial_capital' = inflight[i][1].initial_capital
    /\ self' = i
    /\ inflight' = [inflight EXCEPT ![i] = <<>>]
    /\ UNCHANGED <<out, metrics, driver, shipped>>

FinishReturn(i) ==
    /\ inflight[i] # <<>>
    /\ Returns(i, inflight[i][1].data, inflight[i][1].strategy,
               inflight[i][1].initial_capital)
    /\ Ended(i)

FinishRaise(i) ==
    /\ inflight[i] # <<>>
    /\ Raises(i, inflight[i][1].data, inflight[i][1].strategy,
              inflight[i][1].initial_capital)
    /\ Ended(i)

\* print_summary() on instance i (lines 163-183).
PrintSummary(i) ==
    /\ inflight[i] = <<>>
    /\ out' = <<[method  |-> "print_summary",
                 self    |-> i,
                 nothing |-> results[i] = <<>>,
                 shown   |-> IF results[i] = <<>> THEN <<>>
                             ELSE <<summary_lines(results[i][1])>>]>>
    /\ UNCHANGED <<data, strategy, initial_capital, self, pc, ret, err, results, log,
                   inflight, metrics, observed, calls, driver, shipped>>

\* plot_results() on instance i (lines 125-161): a warning when there is
\* nothing to plot.
PlotResults(i) ==
    /\ inflight[i] = <<>>
    /\ results[i] = <<>> => log.warning < MaxWarnings
    /\ out' = <<[method  |-> "plot_results",
                 self    |-> i,
                 nothing |-> results[i] = <<>>,
                 shown   |-> IF results[i] = <<>> THEN <<>>
                             ELSE <<plotted_series(results[i][1])>>]>>
    /\ log' = IF results[i] = <<>> THEN [log EXCEPT !.warning = @ + 1] ELSE log
    /\ UNCHANGED <<data, strategy, initial_capital, self, pc, ret, err, results,
                   inflight, metrics, observed, calls, driver, shipped>>

NextInstances ==
    \E i \in Instances :
        \/ Begin(i)
        \/ FinishReturn(i)
        \/ FinishRaise(i)
        \/ PrintSummary(i)
        \/ PlotResults(i)

SpecInstances == InitInstances /\ [][NextInstances]_vars

(***************************************************************************)
(* The batch driver main_10year.main (main_10year.py lines 63-117)         *)
(***************************************************************************)

\* create_strategies (lines 26-38) builds nine strategies per symbol.
NumStrategies == 9

\* Lines 92-96: the driver calls
\* run_backtest(data=data, strategy_obj=strategy, initial_capital=...)
\* on a fresh Backtester; the exception that ends the call for strategy k,
\* "none" if it returns.
driver_backtest(k) ==
    run_failure(UpDownBars,
                [AlwaysLong(CallBars) EXCEPT !.aux = {"positions"},
                                             !.convention = "strategy_obj"])

\* Lines 87-109: the loop over the strategies of one test case, from
\* strategy k on; it ends with the first call that raises.
RECURSIVE run_strategies(_, _)
run_strategies(k, acc) ==
    IF k > NumStrategies THEN acc
    ELSE IF driver_backtest(k) # "none"
         THEN [acc EXCEPT !.attempted = @ \cup {k}, !.error = driver_backtest(k)]
         ELSE run_strategies(k + 1, [acc EXCEPT !.attempted = @ \cup {k},
                                                !.period_results = Append(@, k)])

\* What fetch_yahoo_data gives the driver: bars, or an exception (it raises
\* on an empty answer, data_fetcher.py lines 37-38).
FetchOutcomes == {"data", "error"}

InitDriver ==
    /\ data = Bars(<<>>)
    /\ strategy = AlwaysLong(0)
    /\ initial_capital = R(10, 1)
    /\ self = "a"
    /\ pc = "idle"
    /\ ret = <<>>
    /\ FreshEngine
    /\ DriverStart
    /\ shipped = NoStrategy

\* One pass of the loop over the test cases (lines 73-117): fetch, run the
\* strategies, extend all_results; any exception ends the pass.
ProcessTestCase ==
    /\ driver.idx <= MaxCases
    /\ \E fetch \in FetchOutcomes :
          LET run    == IF fetch = "error"
                        THEN [attempted |-> {}, period_results |-> <<>>, error |-> "fetch"]
                        ELSE run_strategies(1, [attempted |-> {}, period_results |-> <<>>,
                                                error |-> "none"])
              combos(ks) == {<<driver.idx, k>> : k \in ks}
              kept   == [n \in 1..Len(run.period_results) |->
                            <<driver.idx, run.period_results[n]>>]
          IN  driver' =
                [idx         |-> driver.idx + 1,
                 printed     |-> Append(driver.printed,
                                        IF run.error = "none" THEN "ok" ELSE run.error),
                 attempted   |-> driver.attempted \cup combos(run.attempted),
                 completed   |-> driver.completed
                                   \cup combos({run.period_results[n] :
                                                   n \in 1..Len(run.period_results)}),
                 all_results |-> IF run.error = "none"
                                 THEN driver.all_results \o kept
                                 ELSE driver.all_results,
                 errors      |-> driver.errors + (IF run.error = "none" THEN 0 ELSE 1)]
    /\ UNCHANGED <<data, strategy, initial_capital, self, pc, ret, err, results, log,
                   inflight, out, metrics, observed, calls, shipped>>

NextDriver == ProcessTestCase

SpecDriver == InitDriver /\ [][NextDriver]_vars

(***************************************************************************)
(* pandas operations used by the shipped strategies                        *)
(***************************************************************************)

Ge(a, b) == Le(b, a)

\* Series.diff(): s[t] - s[t-1], NaN at the first bar.
diff(s) == Series([t \in DOMAIN s |-> IF t = 1 THEN NaN ELSE Sub(s[t], s[t - 1])])

\* Series.pct_change(periods=w): s[t] / s[t-w] - 1, NaN at the first w bars.
pct_change_n(s, w) ==
    Series([t \in DOMAIN s |-> IF t <= w THEN NaN ELSE Sub(Div(s[t], s[t - w]), One)])

\* Series.rolling(window=w) (min_periods = w): the window ending at bar t
\* gives a value when it lies inside the column and holds no NaN.
FullWindow(s, w, t) == t >= w /\ \A u \in (t - w + 1)..t : ~IsNaN(s[u])

Window(s, w, t) == SubSeq(s, t - w + 1, t)

rolling_sum(s, w) ==
    Series([t \in DOMAIN s |->
               IF FullWindow(s, w, t) THEN SumSkipNa(Window(s, w, t), w) ELSE NaN])

rolling_mean(s, w) ==
    Series([t \in DOMAIN s |-> IF FullWindow(s, w, t) THEN mean(Window(s, w, t)) ELSE NaN])

\* rolling(w).std() squared (ddof = 1).
rolling_var(s, w) ==
    Series([t \in DOMAIN s |-> IF FullWindow(s, w, t) THEN variance(Window(s, w, t)) ELSE NaN])

rolling_min(s, w) ==
    Series([t \in DOMAIN s |->
               IF FullWindow(s, w, t) THEN MinSkipNa(Window(s, w, t), w) ELSE NaN])

rolling_max(s, w) ==
    Series([t \in DOMAIN s |->
               IF FullWindow(s, w, t) THEN MaxSkipNa(Window(s, w, t), w) ELSE NaN])

\* Series.ewm(span=span).mean() (adjust=True) on a column without NaN: the
\* average of the entries up to t with weights (1 - alpha)^i,
\* alpha = 2 / (span + 1).
RECURSIVE EwmNum(_, _, _)
EwmNum(s, q, t) == IF t = 0 THEN Zero ELSE Add(s[t], Mul(q, EwmNum(s, q, t - 1)))

RECURSIVE EwmDen(_, _)
EwmDen(q, t) == IF t = 0 THEN Zero ELSE Add(One, Mul(q, EwmDen(q, t - 1)))

ewm_mean(s, span) ==
    LET q == Sub(One, R(2, span + 1))
    IN  Series([t \in DOMAIN s |-> Div(EwmNum(s, q, t), EwmDen(q, t))])

\* The first non-NaN entry at or after bar t; NaN if there is none.
RECURSIVE NextValid(_, _)
NextValid(s, t) ==
    IF t > Len(s) THEN NaN
    ELSE IF ~IsNaN(s[t]) THEN s[t]
    ELSE NextValid(s, t + 1)

\* Series.fillna(method='bfill').
bfill(s) == Series([t \in DOMAIN s |-> NextValid(s, t)])

\* Element-wise operations on two columns / a column and a number.
col_sub(a, b) == Series([t \in DOMAIN a |-> Sub(a[t], b[t])])

col_add(a, b) == Series([t \in DOMAIN a |-> Add(a[t], b[t])])

col_div(a, b) == Series([t \in DOMAIN a |-> Div(a[t], b[t])])

col_sq(a) == Series([t \in DOMAIN a |-> SignedSq(a[t])])

\* A column of n zeros (np.zeros(n), signals['signal'] = 0.0).
zeros(n) == [t \in 1..n |-> Zero]

(***************************************************************************)
(* The shipped strategies (strategies/*.py).  generate_signals(data)       *)
(* builds a new table over data's index; the model holds the columns the   *)
(* claims are about:                                                       *)
(*     signal   the column run_backtest reads                              *)
(*     buy      the bars where the strategy's buy condition holds          *)
(*     sell     the bars where its sell condition holds                    *)
(*     value    the indicator the conditions compare (NaN where undefined) *)
(*     columns  the names of the columns besides signal                    *)
(* and error, the exception generate_signals raises instead ("none" if it  *)
(* returns).                                                               *)
(***************************************************************************)

\* Bars with the columns the strategies read.  days[t] is the calendar day
\* of bar t; labels tells whether the index of the table is these
\* timestamps (a DatetimeIndex) or the positions 0..n-1 (a RangeIndex).
OHLCV(c, h, l, v, days) ==
    [Close |-> c, columns |-> BarColumns, index |-> Len(c),
     High |-> h, Low |-> l, Volume |-> v, days |-> days,
     labels |-> "timestamps"]

\* The table generate_signals returns.
Frame(signal, buy, sell, value, columns) ==
    [error |-> "none", signal |-> signal, buy |-> buy, sell |-> sell,
     value |-> value, columns |-> columns]

\* generate_signals raises e.
StrategyRaises(e) ==
    [error |-> e, signal |-> <<>>, buy |-> <<>>, sell |-> <<>>,
     value |-> <<>>, columns |-> {}]

Never(n) == [t \in 1..n |-> FALSE]

(***************************************************************************)
(* DollarCostAveragingStrategy (dca_strategy.py)                           *)
(***************************************************************************)

\* The calendar of the model: a week has DaysPerWeek days and a month
\* DaysPerMonth days.
DaysPerWeek == 2

DaysPerMonth == 4

\* index.to_period('M') / index.isocalendar(): the period a day lies in.
period_of(day, frequency) ==
    IF frequency = "weekly" THEN (day - 1) \div DaysPerWeek
    ELSE (day - 1) \div DaysPerMonth

\* Lines 18-40: the first bar of every period.
buy_points(days, frequency) ==
    {t \in DOMAIN days :
        \A u \in 1..(t - 1) : period_of(days[u], frequency) # period_of(days[t], frequency)}

\* Lines 59-65: cumulative after the iteration of bar t.
RECURSIVE dca_cumulative(_, _, _)
dca_cumulative(points, increment, t) ==
    IF t = 0 THEN Zero
    ELSE LET before == dca_cumulative(points, increment, t - 1)
         IN  IF t \in points
             THEN (IF Lt(Add(before, increment), One) THEN Add(before, increment) ELSE One)
             ELSE before

\* Lines 42-68.
DollarCostAveragingStrategy(d, frequency) ==
    LET n       == Len(d.Close)
        points  == buy_points(d.days, frequency)
        periods == Cardinality(points)
    IN  IF periods <= 0
        THEN Frame(zeros(n), Never(n), Never(n), zeros(n), {"positions"})
        ELSE Frame(Series([t \in 1..n |-> dca_cumulative(points, R(1, periods), t)]),
                   [t \in 1..n |-> t \in points], Never(n),
                   Series([t \in 1..n |-> dca_cumulative(points, R(1, periods), t)]),
                   {"positions"})

(***************************************************************************)
(* The strategies that hold a position between events: RSI, MACD, VWAP,    *)
(* Momentum, MeanReversion                                                 *)
(***************************************************************************)

\* rsi_strategy.py lines 47-55 (macd_strategy.py 47-55, vwap_strategy.py
\* 48-57, momentum_strategy.py 26-47): current_position after the iteration
\* of bar t, where the loop body tests the conditions from bar `first` on.
RECURSIVE current_position(_, _, _, _)
current_position(buy, sell, first, t) ==
    IF t = 0 THEN Zero
    ELSE IF t >= first /\ buy[t] THEN One
    ELSE IF t >= first /\ sell[t] THEN Zero
    ELSE current_position(buy, sell, first, t - 1)

\* A loop that forgets the position at every bar.
signal_arr_impulse(buy, sell, first) ==
    [t \in DOMAIN buy |-> IF t >= first /\ buy[t] THEN One ELSE Zero]

\* The signal column the loop fills (line 55).
signal_arr(buy, sell, first) ==
    [t \in DOMAIN buy |-> current_position(buy, sell, first, t)]

\* x crosses upward through the line: above it now, at or below it one bar
\* before ((x > line) & (x.shift(1) <= line)).
crosses_above(x, line) ==
    [t \in DOMAIN x |-> Gt(x[t], line[t]) /\ Le(shift(x)[t], shift(line)[t])]

\* (x < line) & (x.shift(1) >= line).
crosses_below(x, line) ==
    [t \in DOMAIN x |-> Lt(x[t], line[t]) /\ Ge(shift(x)[t], shift(line)[t])]

level(n, v) == [t \in 1..n |-> v]

\* rsi_strategy.py lines 23-30: the rsi column.
rsi_column(Close, rsi_period) ==
    LET delta == diff(Close)
        up    == Series([t \in DOMAIN delta |->
                            IF Gt(delta[t], Zero) THEN delta[t] ELSE Zero])
        down  == Series([t \in DOMAIN delta |->
                            Neg(IF Lt(delta[t], Zero) THEN delta[t] ELSE Zero)])
        gain  == rolling_mean(up, rsi_period)
        loss  == rolling_mean(down, rsi_period)
        rs    == fillna(col_div(gain, loss), Zero)
    IN  Series([t \in DOMAIN rs |->
                   Sub(R(100, 1), Div(R(100, 1), Add(One, rs[t])))])

\* rsi_strategy.py lines 18-62.
RSIStrategy(d, p) ==
    LET n    == Len(d.Close)
        rsi  == rsi_column(d.Close, p.rsi_period)
        buy  == crosses_above(rsi, level(n, p.oversold))
        sell == crosses_below(rsi, level(n, p.overbought))
    IN  Frame(signal_arr(buy, sell, 1), buy, sell, rsi, {"rsi", "positions"})

\* macd_strategy.py lines 18-62.
MACDStrategy(d, p) ==
    LET exp1   == ewm_mean(d.Close, p.fast_period)
        exp2   == ewm_mean(d.Close, p.slow_period)
        macd   == col_sub(exp1, exp2)
        signal == ewm_mean(macd, p.signal_period)
        buy    == crosses_above(macd, signal)
        sell   == crosses_below(macd, signal)
    IN  Frame(signal_arr(buy, sell, 1), buy, sell, col_sub(macd, signal),
              {"macd", "signal_line", "histogram", "positions"})

\* vwap_strategy.py lines 22-33: the price_deviation column.
price_deviation(d, lookback_period) ==
    LET typical == Series([t \in DOMAIN d.Close |->
                              Div(Add(Add(d.High[t], d.Low[t]), d.Close[t]), R(3, 1))])
        num     == rolling_sum(col_mul(typical, d.Volume), lookback_period)
        den     == rolling_sum(d.Volume, lookback_period)
        vwap    == col_div(num, den)
    IN  col_div(col_sub(d.Close, vwap), vwap)

\* vwap_strategy.py lines 17-64.
VWAPStrategy(d, p) ==
    LET n    == Len(d.Close)
        dev  == price_deviation(d, p.lookback_period)
        buy  == [t \in 1..n |-> Lt(dev[t], Neg(p.threshold))
                                /\ Ge(shift(dev)[t], Neg(p.threshold))]
        sell == [t \in 1..n |-> Gt(dev[t], p.threshold)
                                /\ Le(shift(dev)[t], p.threshold)]
    IN  Frame(signal_arr(buy, sell, 2), buy, sell, dev, {"vwap", "positions"})

\* momentum_strategy.py lines 17-54.
MomentumStrategy(d, p) ==
    LET n     == Len(d.Close)
        short == pct_change_n(d.Close, p.short_window)
        long  == pct_change_n(d.Close, p.long_window)
        buy   == [t \in 1..n |-> Gt(short[t], long[t]) /\ Gt(short[t], Zero)]
        sell  == [t \in 1..n |-> Lt(short[t], long[t]) /\ Lt(short[t], Zero)]
    IN  Frame(signal_arr(buy, sell, p.long_window + 1), buy, sell, long,
              {"price_change_short", "price_change_long", "positions"})

\* mean_reversion_strategy.py lines 25-27: the zscore column, a multiple of
\* a square root, held as its signed square.
zscore(Close, window) ==
    LET sma == rolling_mean(Close, window)
        var == rolling_var(Close, window)
    IN  col_div(col_sq(col_sub(Close, sma)), var)

\* mean_reversion_strategy.py lines 33-50: position after the iteration of
\* bar t.
RECURSIVE mean_reversion_position(_, _, _)
mean_reversion_position(z, p, t) ==
    IF t = 0 THEN Zero
    ELSE LET position == mean_reversion_position(z, p, t - 1)
         IN  IF IsNaN(z[t]) THEN position
             ELSE IF Le(z[t], SignedSq(p.z_entry)) THEN One
             ELSE IF position = One /\ Ge(z[t], SignedSq(p.z_exit)) THEN Zero
             ELSE position

\* mean_reversion_strategy.py lines 21-54.
MeanReversionStrategy(d, p) ==
    LET n == Len(d.Close)
        z == zscore(d.Close, p.window)
    IN  Frame([t \in 1..n |-> mean_reversion_position(z, p, t)],
              [t \in 1..n |-> Le(z[t], SignedSq(p.z_entry))],
              [t \in 1..n |-> Ge(z[t], SignedSq(p.z_exit))],
              z, {"sma", "std", "zscore", "positions"})

(***************************************************************************)
(* The strategies that signal single bars: Bollinger Bands, Stochastic     *)
(* Oscillator, ADX                                                         *)
(***************************************************************************)

\* signals.loc[mask, 'signal'] = v.
loc_assign(signal, mask, v) == [t \in DOMAIN signal |-> IF mask[t] THEN v ELSE signal[t]]

\* The two assignments in the other order.
impulse_signal_buy_last(n, buy, sell) ==
    loc_assign(loc_assign(zeros(n), sell, R(-1, 1)), buy, One)

\* bollinger_bands_strategy.py lines 19, 45-46 (stochastic_oscillator_
\* strategy.py 22, 53-54; adx_trend_strategy.py 20, 73-74): signal starts
\* at 0.0, is set to 1.0 on the buy bars and then to -1.0 on the sell bars.
impulse_signal(n, buy, sell) ==
    loc_assign(loc_assign(zeros(n), buy, One), sell, R(-1, 1))

\* bollinger_bands_strategy.py lines 17-51.  The bands are
\* mean -+ num_std_dev * std with std a square root; Close is compared with
\* a band by comparing the signed squares of Close - mean and of
\* -+ num_std_dev * std.
BollingerBandsStrategy(d, p) ==
    LET n      == Len(d.Close)
        mid    == rolling_mean(d.Close, p.window)
        var    == rolling_var(d.Close, p.window)
        dev    == col_sq(col_sub(d.Close, mid))
        upper  == col_scale(var, Mul(p.num_std_dev, p.num_std_dev))
        lower  == col_scale(upper, R(-1, 1))
        buy    == crosses_above(dev, lower)
        sell   == crosses_below(dev, upper)
    IN  Frame(impulse_signal(n, buy, sell), buy, sell, var,
              {"upper_band", "middle_band", "lower_band", "buy_signal", "sell_signal",
               "positions"})

\* The pandas releases the program can be installed with (no version is
\* pinned): in pandas 3 fillna has no `method` argument and an assignment
\* through df[col][rows] never reaches df (Copy-on-Write); in pandas 2 both
\* work, with a warning.
PandasBuilds == {"pandas2", "pandas3"}

\* stochastic_oscillator_strategy.py lines 25-32: the k_percent column.
k_percent(d, k_period) ==
    LET low_min     == rolling_min(d.Low, k_period)
        high_max    == rolling_max(d.High, k_period)
        denominator == replace(col_sub(high_max, low_min), Zero, NaN)
    IN  bfill(col_scale(col_div(col_sub(d.Close, low_min), denominator), R(100, 1)))

\* stochastic_oscillator_strategy.py lines 20-59.
StochasticOscillatorStrategy(d, p, build) ==
    LET n    == Len(d.Close)
        k    == k_percent(d, p.k_period)
        dpct == rolling_mean(k, p.d_period)
        buy  == [t \in 1..n |-> crosses_above(k, dpct)[t] /\ Le(k[t], p.oversold)]
        sell == [t \in 1..n |-> crosses_below(k, dpct)[t] /\ Ge(k[t], p.overbought)]
    IN  IF build = "pandas3" THEN StrategyRaises("TypeError")
        ELSE Frame(impulse_signal(n, buy, sell), buy, sell, k,
                   {"k_percent", "d_percent", "buy_signal", "sell_signal", "positions"})

AbsR(x) == IF Lt(x, Zero) THEN Neg(x) ELSE x

\* np.where(s == 0, np.nan, s).
zero_to_nan(s) == [t \in DOMAIN s |-> IF Eq(s[t], Zero) THEN NaN ELSE s[t]]

\* adx_trend_strategy.py lines 23-27.
true_range(d) ==
    LET prev == shift(d.Close)
    IN  Series([t \in DOMAIN d.Close |->
                   MaxSkipNa(<<Sub(d.High[t], d.Low[t]),
                               AbsR(Sub(d.High[t], prev[t])),
                               AbsR(Sub(d.Low[t], prev[t]))>>, 3)])

\* adx_trend_strategy.py lines 30-52: plus_di, minus_di and adx, by
\* position.
directional_indicators(d, adx_period) ==
    LET up_move   == col_sub(d.High, shift(d.High))
        down_move == col_sub(shift(d.Low), d.Low)
        plus_dm   == Series([t \in DOMAIN up_move |->
                                IF Gt(up_move[t], down_move[t]) /\ Gt(up_move[t], Zero)
                                THEN up_move[t] ELSE Zero])
        minus_dm  == Series([t \in DOMAIN up_move |->
                                IF Gt(down_move[t], up_move[t]) /\ Gt(down_move[t], Zero)
                                THEN down_move[t] ELSE Zero])
        tr_sum    == zero_to_nan(rolling_sum(true_range(d), adx_period))
        plus_di   == fillna(col_div(col_scale(rolling_sum(plus_dm, adx_period), R(100, 1)),
                                    tr_sum), Zero)
        minus_di  == fillna(col_div(col_scale(rolling_sum(minus_dm, adx_period), R(100, 1)),
                                    tr_sum), Zero)
        di_diff   == Series([t \in DOMAIN plus_di |->
                                Mul(R(100, 1), AbsR(Sub(plus_di[t], minus_di[t])))])
        dx        == fillna(col_div(di_diff, zero_to_nan(col_add(plus_di, minus_di))), Zero)
    IN  [plus_di |-> plus_di, minus_di |-> minus_di, adx |-> rolling_mean(dx, adx_period)]

\* The labels of a column built from a numpy array (pd.Series(plus_dm),
\* lines 37-38, and everything computed from it): the positions 0..n-1.
\* Assigning such a column to the table (lines 54-70) aligns it on the
\* table's index: no label of a DatetimeIndex is among 0..n-1, so every
\* entry of the assigned column is NaN.
aligned(labels, n) == n = 0 \/ labels = "positions"

\* adx_trend_strategy.py lines 18-79.  signals.loc[mask, ...] with a mask
\* holding NaN raises ValueError (line 73).
ADXTrendStrategy(d, p) ==
    LET n    == Len(d.Close)
        di   == directional_indicators(d, p.adx_period)
        buy  == [t \in 1..n |-> /\ Gt(di.adx[t], p.adx_threshold)
                                /\ Gt(di.plus_di[t], di.minus_di[t])
                                /\ Le(shift(di.plus_di)[t], shift(di.minus_di)[t])]
        sell == [t \in 1..n |-> /\ Gt(di.adx[t], p.adx_threshold)
                                /\ Gt(di.minus_di[t], di.plus_di[t])
                                /\ Le(shift(di.minus_di)[t], shift(di.plus_di)[t])]
    IN  IF ~aligned(d.labels, n) THEN StrategyRaises("ValueError")
        ELSE Frame(impulse_signal(n, buy, sell), buy, sell, di.adx,
                   {"plus_di", "minus_di", "adx", "buy_signal", "sell_signal", "positions"})

(***************************************************************************)
(* Moving-average crossover (simple_moving_average.py)                     *)
(***************************************************************************)

\* Lines 37-57 of SimpleMovingAverageStrategy.generate_signals:
\* current_position after the iteration of bar t (the loop starts at the
\* second bar).
RECURSIVE crossover_position(_, _, _)
crossover_position(short, long, t) ==
    IF t <= 1 THEN Zero
    ELSE LET before          == crossover_position(short, long, t - 1)
             is_above_now    == Gt(short[t], long[t])
             is_above_before == Gt(short[t - 1], long[t - 1])
         IN  IF IsNaN(short[t]) \/ IsNaN(long[t]) THEN before
             ELSE IF is_above_now /\ ~is_above_before THEN One
             ELSE IF ~is_above_now /\ is_above_before THEN Zero
             ELSE before

\* Lines 23-64.
SimpleMovingAverageStrategy(d, p) ==
    LET n     == Len(d.Close)
        short == rolling_mean(d.Close, p.short_window)
        long  == rolling_mean(d.Close, p.long_window)
        tested == [t \in 1..n |-> t > 1 /\ ~IsNaN(short[t]) /\ ~IsNaN(long[t])]
        above == [t \in 1..n |-> Gt(short[t], long[t])]
    IN  Frame([t \in 1..n |-> crossover_position(short, long, t)],
              [t \in 1..n |-> tested[t] /\ above[t] /\ ~above[t - 1]],
              [t \in 1..n |-> tested[t] /\ ~above[t] /\ above[t - 1]],
              col_sub(short, long), {"SMA_short", "SMA_long", "positions"})

\* Lines 89-92 of sma_crossover_strategy: df['signal'][short_window:] = ...
\* assigns through the column object df['signal'] returns.  In pandas 2 the
\* column is the table's own and the rows from short_window on are
\* written; in pandas 3 it is a copy and the table keeps its zeros.
chained_assignment(column, first, values, build) ==
    IF build = "pandas3" THEN column
    ELSE [t \in DOMAIN column |-> IF t >= first THEN values[t] ELSE column[t]]

\* Lines 82-98: the legacy function; it returns the signal column.
sma_crossover_strategy(d, p, build) ==
    LET n     == Len(d.Close)
        short == rolling_mean(d.Close, p.short_window)
        long  == rolling_mean(d.Close, p.long_window)
        where == [t \in 1..n |-> IF Gt(short[t], long[t]) THEN One ELSE Zero]
    IN  chained_assignment(zeros(n), p.short_window + 1, where, build)

(***************************************************************************)
(* Specification SpecStrategies: a shipped strategy is constructed, its    *)
(* generate_signals is applied to the bars, and run_backtest is invoked    *)
(* with the bound method strategy.generate_signals (or the legacy          *)
(* function) as strategy_func.                                             *)
(***************************************************************************)

\* Bound on the number of bars given to a shipped strategy.
MaxStrategyBars == 4

\* Calendar days the bars of a series may fall on.
Days == 1..(2 * DaysPerMonth)

CloseSeries == UNION {[1..n -> Prices] : n \in 0..MaxStrategyBars}

Consecutive(n) == [t \in 1..n |-> t]

\* Bars on consecutive days whose range is empty (flat: High = Low = Close)
\* or not (wide; low: Close near the Low; high: Close near the High), with
\* a volume at every bar or none at the first two bars.
HighOf(c, range) ==
    CASE range = "flat" -> c
      [] range = "wide" -> Add(c, One)
      [] range = "low"  -> Add(c, R(4, 1))
      [] range = "high" -> Add(c, R(1, 4))

LowOf(c, range) ==
    CASE range = "flat" -> c
      [] range = "wide" -> Sub(c, R(1, 2))
      [] range = "low"  -> Sub(c, R(1, 2))
      [] range = "high" -> Div(c, R(8, 1))

RangedBars(c, range, volume) ==
    OHLCV(c,
          [t \in 1..Len(c) |-> HighOf(c[t], range)],
          [t \in 1..Len(c) |-> LowOf(c[t], range)],
          [t \in 1..Len(c) |-> IF volume = "halted" /\ t <= 2 THEN Zero ELSE One],
          Consecutive(Len(c)))

CloseBars == {RangedBars(c, "flat", "traded") : c \in CloseSeries}

\* Series of increasing days.
DaySeries ==
    UNION {{s \in [1..n -> Days] : \A t \in 1..(n - 1) : s[t] < s[t + 1]} :
              n \in 0..MaxStrategyBars}

CalendarBars ==
    {[RangedBars([t \in 1..Len(s) |-> IF t % 2 = 1 THEN R(1, 1) ELSE R(2, 1)],
                 "flat", "traded") EXCEPT !.days = s] : s \in DaySeries}

\* The strategy objects (and the legacy function) with the parameters they
\* are constructed with, and the bars each is applied to.
StrategyObjects ==
    [name : {"DollarCostAveragingStrategy"}, params : [frequency : {"monthly", "weekly"}]]
    \cup [name : {"RSIStrategy"},
          params : [rsi_period : {1, 2}, oversold : {R(30, 1)}, overbought : {R(70, 1)}]]
    \cup [name : {"MACDStrategy"},
          params : [fast_period : {1}, slow_period : {2}, signal_period : {2}]]
    \cup [name : {"VWAPStrategy"},
          params : [lookback_period : {2}, threshold : {R(2, 100)}]]
    \cup [name : {"MomentumStrategy"}, params : [short_window : {1}, long_window : {2}]]
    \cup [name : {"MeanReversionStrategy"},
          params : [window : {2}, z_entry : {R(-1, 2)}, z_exit : {R(-1, 10), R(-1, 1)}]]
    \cup [name : {"BollingerBandsStrategy"},
          params : [window : {2}, num_std_dev : {R(1, 2), R(2, 1)}]]
    \cup [name : {"StochasticOscillatorStrategy"},
          params : [k_period : {2}, d_period : {2}, oversold : {R(20, 1)},
                    overbought : {R(80, 1)}]]
    \cup [name : {"ADXTrendStrategy"},
          params : [adx_period : {1, 2}, adx_threshold : {R(25, 1)}]]
    \cup [name : {"SimpleMovingAverageStrategy", "sma_crossover_strategy"},
          params : [short_window : {1, 2}, long_window : {2, 3}]]

BarsFor(name) ==
    CASE name = "DollarCostAveragingStrategy" -> CalendarBars
      [] name = "VWAPStrategy" ->
            {RangedBars(c, r, v) : c \in CloseSeries, r \in {"flat", "wide"},
                                   v \in {"traded", "halted"}}
      [] name = "StochasticOscillatorStrategy" ->
            {RangedBars(c, r, "traded") : c \in CloseSeries, r \in {"flat", "low", "high"}}
      [] name = "ADXTrendStrategy" ->
            {[RangedBars(c, r, "traded") EXCEPT !.labels = l] :
                c \in CloseSeries, r \in {"flat", "wide"}, l \in {"timestamps", "positions"}}
      [] OTHER -> CloseBars

\* What generate_signals of the object o (or the legacy function) does on
\* the bars d under the pandas release build.
generate_signals(o, d, build) ==
    CASE o.name = "DollarCostAveragingStrategy" ->
            DollarCostAveragingStrategy(d, o.params.frequency)
      [] o.name = "RSIStrategy" -> RSIStrategy(d, o.params)
      [] o.name = "MACDStrategy" -> MACDStrategy(d, o.params)
      [] o.name = "VWAPStrategy" -> VWAPStrategy(d, o.params)
      [] o.name = "MomentumStrategy" -> MomentumStrategy(d, o.params)
      [] o.name = "MeanReversionStrategy" -> MeanReversionStrategy(d, o.params)
      [] o.name = "BollingerBandsStrategy" -> BollingerBandsStrategy(d, o.params)
      [] o.name = "StochasticOscillatorStrategy" ->
            StochasticOscillatorStrategy(d, o.params, build)
      [] o.name = "ADXTrendStrategy" -> ADXTrendStrategy(d, o.params)
      [] o.name = "SimpleMovingAverageStrategy" -> SimpleMovingAverageStrategy(d, o.params)
      [] o.name = "sma_crossover_strategy" ->
            LET n == Len(d.Close)
            IN  Frame(sma_crossover_strategy(d, o.params, build), Never(n), Never(n),
                      zeros(n), {})

\* strategy_func as run_backtest sees it: a callable that returns the
\* table (the legacy function: the column), or raises.
strategy_func(o, frame) ==
    [kind       |-> IF frame.error # "none" THEN "raises"
                    ELSE IF o.name = "sma_crossover_strategy" THEN "series"
                    ELSE "table",
     signal     |-> frame.signal,
     aux        |-> frame.columns,
     convention |-> "function"]

InitStrategies ==
    /\ \E o \in StrategyObjects, build \in PandasBuilds :
          /\ shipped = [name |-> o.name, params |-> o.params, build |-> build,
                        frame |-> [error |-> "pending"]]
          /\ data \in BarsFor(o.name)
    /\ strategy = [kind |-> "table", signal |-> <<>>, aux |-> {}, convention |-> "function"]
    /\ initial_capital \in InitialCapitals
    /\ self = "a"
    /\ pc = "new"
    /\ ret = <<>>
    /\ FreshEngine
    /\ DriverStart

\* strategy.generate_signals(data).
GenerateSignals ==
    /\ pc = "new"
    /\ shipped' = [shipped EXCEPT !.frame = generate_signals(shipped, data, shipped.build)]
    /\ strategy' = strategy_func(shipped, shipped'.frame)
    /\ data' = caller_table(data, shipped'.frame.columns \cup {"signal"})
    /\ pc' = "ready"
    /\ UNCHANGED <<initial_capital, self, ret, err, results, log, inflight, out, metrics,
                   observed, calls, driver>>

NextStrategies == GenerateSignals \/ RunBacktest

SpecStrategies == InitStrategies /\ [][NextStrategies]_vars

(***************************************************************************)
(* Properties                                                              *)
(***************************************************************************)

\* The invocation has returned a result record.
Returned == pc = "returned"

\* Number of bars of the input series.
NumBars == Len(data.Close)

\* The signal table with only the rows of the bars before bar t.
RowsBefore(strat, t) ==
    [strat EXCEPT !.signal = [u \in {v \in DOMAIN strat.signal : v < t} |-> strat.signal[u]]]

\* The signal table with the row of bar t set to v.
WithRow(strat, t, v) ==
    [strat EXCEPT !.signal = [u \in DOMAIN strat.signal \cup {t} |->
                                 IF u = t THEN v ELSE strat.signal[u]]]

\* The position column run_backtest derives for the strategy output strat.
PositionOf(strat) == position_column(signal_column(data.Close, strat))

LaggedColumns == {"position", "strategy_returns", "equity_curve", "rolling_max", "drawdown"}

\* C1: the realized position is the one-bar lag of the long-only signal:
\* position is 0 at the first bar, and for every later bar it is 1 when the
\* previous bar's signal is 1 and 0 when that signal is 0, missing or short
\* (negative).
C1_PositionIsLaggedLongOnlySignal ==
    Returned =>
        LET df == ret[1].data
        IN  /\ df.position[1] = Zero
            /\ \A t \in 2..NumBars :
                  LET s == df.signal[t - 1]
                  IN  /\ s = One => df.position[t] = One
                      /\ (s = Zero \/ IsNaN(s) \/ Lt(s, Zero)) => df.position[t] = Zero

\* C2: no lookahead.  The columns position, strategy_returns, equity_curve,
\* rolling_max and drawdown at bars <= t are those of the run on the same
\* bars and capital whose signal table holds only the rows before t, so two
\* runs whose signals agree before t agree up to t; and position(t+1) follows
\* signal(t): it is the same as in a run where the row of bar t is replaced
\* by that same value, 1 where it is replaced by 1 and 0 where by 0.
C2_NoLookahead ==
    Returned =>
        \A t \in 1..NumBars :
            /\ \A other \in {backtest_table(data.Close, RowsBefore(strategy, t),
                                            initial_capital)} :
                  \A c \in LaggedColumns : \A u \in 1..t :
                      ret[1].data[c][u] = other[c][u]
            /\ t < NumBars =>
                  /\ \A long \in {PositionOf(WithRow(strategy, t, One))} :
                        /\ long[t + 1] = One
                        /\ long[t] = ret[1].data.position[t]
                  /\ \A flat \in {PositionOf(WithRow(strategy, t, Zero))} :
                        /\ flat[t + 1] = Zero
                        /\ flat[t] = ret[1].data.position[t]

\* C2 witness: a run of three bars or more in which the position at some bar
\* is 1 while the signal of that very bar is not 1, and the position at a
\* later bar differs.
C2_Witness ==
    /\ Returned
    /\ NumBars >= 3
    /\ \E t \in 2..(NumBars - 1) :
          /\ ret[1].data.position[t] = One
          /\ ret[1].data.signal[t] = Zero
          /\ ret[1].data.position[t + 1] = Zero

\* C3: every negative signal (not only -1) is mapped to zero exposure: the
\* position at the next bar is 0, and no realized position is negative.
C3_NegativeSignalIsFlat ==
    Returned =>
        LET df == ret[1].data
        IN  \A t \in 1..NumBars :
               /\ (Lt(df.signal[t], Zero) /\ t < NumBars) => df.position[t + 1] = Zero
               /\ ~Lt(df.position[t], Zero)

\* The product over the bars 2..t of (1 + position * return).
RECURSIVE Compounded(_, _, _)
Compounded(pos, r, t) ==
    IF t <= 1 THEN One
    ELSE Mul(Compounded(pos, r, t - 1), Add(One, Mul(pos[t], r[t])))

\* C4: with two bars or more, equity_curve at the first bar equals
\* initial_capital, and at every later bar t it is initial_capital times the
\* product over the bars after the first up to t of (1 + position x return);
\* benchmark_curve obeys the same rule with position 1.
C4_EquityCompoundsFromInitialCapital ==
    (Returned /\ NumBars >= 2) =>
        LET df   == ret[1].data
            ones == [t \in 1..NumBars |-> One]
        IN  /\ df.equity_curve[1] = initial_capital
            /\ df.benchmark_curve[1] = initial_capital
            /\ \A t \in 2..NumBars :
                  /\ df.equity_curve[t] =
                        Mul(initial_capital, Compounded(df.position, df.returns, t))
                  /\ df.benchmark_curve[t] =
                        Mul(initial_capital, Compounded(ones, df.returns, t))

\* The strategy emitted the value v at every bar.
SignalEverywhere(v) ==
    \A t \in 1..NumBars : t \in DOMAIN strategy.signal /\ strategy.signal[t] = v

\* C5: for an all-zero signal series, total_return = 0, equity_curve equals
\* initial_capital at every bar, max_drawdown = 0 and win_rate = 0.
C5_AllZeroSignalIsFlat ==
    (Returned /\ SignalEverywhere(Zero)) =>
        /\ ret[1].total_return = Zero
        /\ \A t \in 1..NumBars : ret[1].data.equity_curve[t] = initial_capital
        /\ ret[1].max_drawdown = Zero
        /\ ret[1].win_rate = Zero

C7_DrawdownNonPositive ==
    Returned =>
        LET df == ret[1].data
        IN  /\ \A t \in 1..NumBars :
                  /\ \E u \in 1..t : df.rolling_max[t] = df.equity_curve[u]
                  /\ \A u \in 1..t : Le(df.equity_curve[u], df.rolling_max[t])
                  /\ t > 1 => Le(df.rolling_max[t - 1], df.rolling_max[t])
                  /\ Le(df.drawdown[t], Zero)
                  /\ (\A u \in 1..(t - 1) : Lt(df.equity_curve[u], df.equity_curve[t]))
                        => df.drawdown[t] = Zero
            /\ \E t \in 1..NumBars : ret[1].max_drawdown = Mul(df.drawdown[t], R(100, 1))
            /\ \A t \in 1..NumBars : Le(ret[1].max_drawdown, Mul(df.drawdown[t], R(100, 1)))
            /\ Le(ret[1].max_drawdown, Zero)

\* All defined (non-NaN) strategy returns are the same value.
ZeroVariance(sr) ==
    \A t, u \in DOMAIN sr : (~IsNaN(sr[t]) /\ ~IsNaN(sr[u])) => sr[t] = sr[u]

\* C8: with two bars or more and identical defined strategy returns (also a
\* single defined return), run_backtest returns sharpe_ratio exactly 0, not an
\* exception and not NaN/Inf.
C8_SharpeZeroOnZeroVariance ==
    (pc # "ready" /\ NumBars >= 2) =>
        /\ Returned
        /\ ZeroVariance(ret[1].data.strategy_returns) => ret[1].sharpe_ratio = Zero

\* Number of bars whose strategy return is > 0, resp. < 0.
Wins == Cardinality({t \in 1..NumBars : Gt(ret[1].data.strategy_returns[t], Zero)})

Losses == Cardinality({t \in 1..NumBars : Lt(ret[1].data.strategy_returns[t], Zero)})

\* C9: win_rate = 100 x W / (W + L) with W the number of bars with
\* strategy_return > 0 and L the number with strategy_return < 0 (bars with a
\* zero or undefined strategy_return count in neither); it is 0 when
\* W + L = 0 and always lies in [0, 100].
C9_WinRateExcludesZeroBars ==
    Returned =>
        /\ (Wins + Losses = 0) => ret[1].win_rate = Zero
        /\ (Wins + Losses > 0) =>
              ret[1].win_rate[1] * (Wins + Losses) = 100 * Wins * ret[1].win_rate[2]
        /\ IsFinite(ret[1].win_rate)
        /\ Le(Zero, ret[1].win_rate)
        /\ Le(ret[1].win_rate, R(100, 1))

\* C9 witness: one winning bar, one bar with a zero strategy return and the
\* undefined first bar: the win rate is 100, not 50 or 33.
C9_Witness ==
    /\ Returned
    /\ NumBars = 3
    /\ Wins = 1
    /\ Losses = 0
    /\ \E t \in 1..NumBars : ret[1].data.strategy_returns[t] = Zero
    /\ IsNaN(ret[1].data.strategy_returns[1])
    /\ ret[1].win_rate = R(100, 1)

TableColumns ==
    {"Close", "signal", "position", "returns", "strategy_returns", "equity_curve",
     "benchmark_curve", "rolling_max", "drawdown"}

\* C10: bars without a row in the strategy's signal table or Series do not
\* make run_backtest fail; every bar of the input is kept, and an unmatched
\* bar counts as signal 0 (it is not carried forward), so the position at the
\* following bar is 0.
C10_UnmatchedBarIsFlat ==
    /\ pc = "raised" => NumBars = 0
    /\ Returned =>
          LET df == ret[1].data
          IN  /\ \A c \in TableColumns : Len(df[c]) = NumBars
              /\ df.Close = data.Close
              /\ \A t \in (1..NumBars) \ DOMAIN strategy.signal :
                    t < NumBars => df.position[t + 1] = Zero

\* C10 witness: a bar without a signal row that follows a bar with signal 1
\* and is followed by another bar: the position is 1 at the unmatched bar
\* and 0 at the bar after it.
C10_Witness ==
    /\ Returned
    /\ \E t \in 2..(NumBars - 1) :
          /\ t \notin DOMAIN strategy.signal
          /\ (t - 1) \in DOMAIN strategy.signal
          /\ strategy.signal[t - 1] = One
          /\ ret[1].data.position[t] = One
          /\ ret[1].data.position[t + 1] = Zero

(***************************************************************************)
(* Properties of the call contract (SpecCalls)                             *)
(***************************************************************************)

\* The invocation has ended, by a return or by an exception.
Ended1 == pc \in {"returned", "raised"}

\* The bar series has a Close column and at least one bar.
WellFormedBars == "Close" \in data.columns /\ data.index > 0

\* The strategy generates its signals without raising, and its table has no
\* column named like a column of the bars.
WellFormedStrategy ==
    strategy.kind \in {"table", "series"} /\ strategy.aux \cap data.columns = {}

\* C11: run_backtest produces a result under both call conventions: for a
\* strategy object exposing generate_signals handed over as the drivers do
\* (keyword strategy_obj) or as the first argument, and for a plain function
\* returning a signal table or a bare signal sequence; the bare sequence is
\* used as the signal column as it is.
C11_BothConventionsProduceResult ==
    (Ended1 /\ WellFormedBars /\ WellFormedStrategy /\ Gt(initial_capital, Zero)) =>
        /\ pc = "returned"
        /\ ret # <<>>
        /\ strategy.kind = "series" => ret[1].data.signal = strategy.signal

C13_NonPositiveCapitalRaises ==
    (Ended1 /\ ~Gt(initial_capital, Zero)) =>
        /\ pc = "raised"
        /\ ret = <<>>

\* C17: for a sequence of period returns, calculate_metrics gives the
\* sharpe_ratio and the max_drawdown that run_backtest gives for a run whose
\* strategy_returns are that sequence (the benchmark's returns included,
\* when the run is long throughout).
C17_MetricsAgreeWithRun ==
    metrics # <<>> =>
        \A i \in Instances :
            (results[i] # <<>> /\ results[i][1].data.strategy_returns = metrics[1].returns) =>
                /\ metrics[1].values.sharpe_ratio = results[i][1].sharpe_ratio
                /\ metrics[1].values.max_drawdown = results[i][1].max_drawdown

ReportedMetrics ==
    {"total_return", "benchmark_return", "sharpe_ratio", "max_drawdown", "volatility",
     "win_rate"}

\* C18: the further columns of a signal table are ignored: the invocation
\* succeeds whatever they are, and returns the metrics, the position and the
\* equity curve of the invocation whose table has the signal column only.
C18_AuxiliaryColumnsIgnored ==
    (Ended1 /\ WellFormedBars /\ strategy.kind = "table" /\ strategy.convention = "function") =>
        /\ pc = "returned"
        /\ \A plain \in {backtest_results(data.Close, [strategy EXCEPT !.aux = {}],
                                          initial_capital)} :
              /\ \A m \in ReportedMetrics : ret[1][m] = plain[m]
              /\ ret[1].data.position = plain.data.position
              /\ ret[1].data.equity_curve = plain.data.equity_curve

(***************************************************************************)
(* Properties of the cache (SpecInstances)                                 *)
(***************************************************************************)

\* The step is the end of an invocation on instance i.
InvocationEnds(i) == calls' = calls + 1 /\ self' = i

\* C14: when the strategy raises while generating signals, run_backtest
\* logs one error line, raises that same error to its caller, returns no
\* result record, and leaves the cache of every instance as it was.
C14_StrategyFailureLeavesCache ==
    [][\A i \in Instances :
          (InvocationEnds(i) /\ strategy'.kind = "raises"
                             /\ strategy'.convention = "function") =>
              /\ pc' = "raised"
              /\ err' = "StrategyError"
              /\ ret' = <<>>
              /\ log'.error = log.error + 1
              /\ log'.info = log.info
              /\ results' = results]_vars

C14_Witness ==
    /\ pc = "raised"
    /\ err = "StrategyError"
    /\ strategy.kind = "raises"
    /\ results[self] # <<>>
    /\ log.error = 1

\* C15: the cache read by print_summary and plot_results holds the result of
\* the most recent invocation on the instance, whatever that invocation
\* was; before any invocation it is empty and both methods report that
\* there is nothing to show.
C15_CacheIsLatestInvocation ==
    /\ calls > 0 => results[self] = ret
    /\ calls = 0 => \A i \in Instances : results[i] = <<>>
    /\ (calls = 0 /\ out # <<>>) => out[1].nothing

\* C15 (amended): the cache holds the result of the most recent invocation
\* on the instance that returned one: an invocation that returns replaces
\* it, an invocation that raises leaves it as it was.  It is empty at
\* first, and print_summary and plot_results report that there is nothing
\* to show exactly when it is empty and show the cached result otherwise.
C15_CacheIsLatestReturnedResult ==
    /\ \A i \in Instances : results[i] = <<>>
    /\ [][/\ \A i \in Instances :
                InvocationEnds(i) =>
                    results'[i] = IF pc' = "returned" THEN ret' ELSE results[i]
          /\ out' # out =>
                LET cache == results[out'[1].self]
                IN  /\ out'[1].nothing = (cache = <<>>)
                    /\ out'[1].nothing => out'[1].shown = <<>>
                    /\ (~out'[1].nothing /\ out'[1].method = "print_summary") =>
                          out'[1].shown = <<summary_lines(cache[1])>>
                    /\ (~out'[1].nothing /\ out'[1].method = "plot_results") =>
                          out'[1].shown = <<plotted_series(cache[1])>>]_vars

C15_Witness ==
    /\ calls = 2
    /\ log.info = 2
    /\ Cardinality({o \in observed : o.pc = "returned"}) = 2
    /\ results["b"] = <<>>
    /\ results["a"] = ret
    /\ out # <<>>
    /\ out[1].method = "print_summary"
    /\ out[1].shown = <<summary_lines(ret[1])>>

Processed == 1..(driver.idx - 1)

\* C19: in main_10year a failing (symbol, period, strategy) combination is
\* caught and the driver goes on with the remaining combinations: every
\* strategy of a test case whose bars were fetched is run, and the result
\* of every combination that returned one is in the collected results.
C19_DriverContinuesPerCombination ==
    /\ \A c \in Processed :
          driver.printed[c] # "fetch" =>
              \A k \in 1..NumStrategies : <<c, k>> \in driver.attempted
    /\ \A combo \in driver.completed :
          \E n \in 1..Len(driver.all_results) : driver.all_results[n] = combo

\* C20: for the signal of BuyAndHoldStrategy (a table with signal 1 at
\* every bar) no one-bar shift is applied: the position is 1 at every bar,
\* the first included.
C20_BuyAndHoldIsNotShifted ==
    (Returned /\ strategy.kind = "table" /\ SignalEverywhere(One)) =>
        \A t \in 1..NumBars : ret[1].data.position[t] = One


(***************************************************************************)
(* C22: every result record returned by run_backtest is internally         *)
(* consistent: it has the keys total_return, benchmark_return,             *)
(* sharpe_ratio, max_drawdown, volatility, win_rate, initial_capital and   *)
(* the per-bar table (data); total_return is (last equity_curve value /    *)
(* initial_capital - 1) x 100, benchmark_return is (last benchmark_curve   *)
(* value / initial_capital - 1) x 100, and initial_capital is the value    *)
(* passed in.  (An undefined last value gives an undefined return on both  *)
(* sides.)                                                                 *)
(***************************************************************************)
ResultKeys ==
    {"total_return", "benchmark_return", "sharpe_ratio", "max_drawdown",
     "volatility", "win_rate", "data", "initial_capital"}

Percent(curve, capital) == Mul(Sub(Div(curve[Len(curve)], capital), One), R(100, 1))

C22_ResultRecordConsistent ==
    Returned =>
        LET r == ret[1]
        IN  /\ DOMAIN r = ResultKeys
            /\ r.initial_capital = initial_capital
            /\ r.total_return = Percent(r.data.equity_curve, initial_capital)
            /\ r.benchmark_return = Percent(r.data.benchmark_curve, initial_capital)

\* A returned record whose two returns are defined, non-zero and different.
C22_Witness ==
    /\ Returned
    /\ IsFinite(ret[1].total_return)
    /\ IsFinite(ret[1].benchmark_return)
    /\ ret[1].total_return # Zero
    /\ ret[1].benchmark_return # Zero
    /\ ret[1].total_return # ret[1].benchmark_return

(***************************************************************************)
(* Properties of the shipped strategies (SpecStrategies)                   *)
(***************************************************************************)

\* generate_signals of the strategy `name` has returned its table.
Generated(name) == shipped.name = name /\ pc # "new" /\ shipped.frame.error = "none"

\* run_backtest has returned a result for the strategy `name`.
Backtested(name) == shipped.name = name /\ Returned

\* The bars that are the first of their month (or week) in the series.
FirstOfPeriod ==
    {t \in 1..NumBars :
        t = 1 \/ period_of(data.days[t], shipped.params.frequency)
                 # period_of(data.days[t - 1], shipped.params.frequency)}

\* The fraction k/N after bar t: k buy points up to t out of N.
Fraction(t) == R(Cardinality({u \in FirstOfPeriod : u <= t}), Cardinality(FirstOfPeriod))

(***************************************************************************)
(* C21: for DollarCostAveragingStrategy run through run_backtest, exposure *)
(* rises gradually from 0 to 1: with N buy points (first trading bar of    *)
(* each month, or week), the signal after the k-th buy point is k/N and    *)
(* the realized position at the next bar equals that fraction k/N,         *)
(* reaching 1 only after the last buy point.                               *)
(***************************************************************************)
C21_ExposureRisesByFractions ==
    Backtested("DollarCostAveragingStrategy") =>
        \A t \in 1..NumBars :
            /\ ret[1].data.signal[t] = Fraction(t)
            /\ t < NumBars => ret[1].data.position[t + 1] = Fraction(t)

\* The part that holds: the signal column is k/N after the k-th buy point.
C21_SignalIsFraction ==
    Backtested("DollarCostAveragingStrategy") =>
        \A t \in 1..NumBars : ret[1].data.signal[t] = Fraction(t)

\* What run_backtest makes of it: the position after a bar is 1 once every
\* buy point has passed and 0 before.
C21_PositionIsAllOrNothing ==
    Backtested("DollarCostAveragingStrategy") =>
        \A t \in 1..(NumBars - 1) :
            ret[1].data.position[t + 1] = (IF Fraction(t) = One THEN One ELSE Zero)

\* A backtested series with three buy points, two bars after the first.
C21_Witness ==
    /\ Backtested("DollarCostAveragingStrategy")
    /\ Cardinality(FirstOfPeriod) = 3
    /\ ret[1].data.signal[2] = R(1, 3)
    /\ ret[1].data.position[3] = Zero

(***************************************************************************)
(* C23: for the carry-forward strategies (RSI, MACD, VWAP, Momentum,       *)
(* MeanReversion) the signal is a scan with one carried state: signal(t)   *)
(* is always 0 or 1, starts from 0, is 1 at a bar where the buy condition  *)
(* holds (buy wins when buy and sell both hold), 0 at a bar where only the *)
(* sell condition holds, and otherwise equals signal(t-1); once long, the  *)
(* signal stays 1 until the next sell-only bar.                            *)
(***************************************************************************)
CarryForward ==
    {"RSIStrategy", "MACDStrategy", "VWAPStrategy", "MomentumStrategy",
     "MeanReversionStrategy"}

\* The signal of the bar before t; 0 before the first bar.
Carried(signal, t) == IF t = 1 THEN Zero ELSE signal[t - 1]

C23_CarryForwardScan ==
    \A name \in CarryForward :
        Generated(name) =>
            LET f == shipped.frame
            IN  \A t \in 1..NumBars :
                    /\ f.signal[t] \in {Zero, One}
                    /\ f.buy[t] => f.signal[t] = One
                    /\ (f.sell[t] /\ ~f.buy[t]) => f.signal[t] = Zero
                    /\ (~f.sell[t] /\ ~f.buy[t]) => f.signal[t] = Carried(f.signal, t)
                    /\ \A u \in 1..t :
                          (f.signal[u] = One /\ \A v \in (u + 1)..t : f.buy[v] \/ ~f.sell[v])
                              => f.signal[t] = One

\* A buy bar, then a bar without event where the signal is still 1, then a
\* sell-only bar where it falls to 0.
C23_Witness ==
    /\ \E name \in CarryForward : Generated(name)
    /\ \E t \in 1..(NumBars - 2) :
          /\ shipped.frame.buy[t]
          /\ ~shipped.frame.buy[t + 1] /\ ~shipped.frame.sell[t + 1]
          /\ shipped.frame.signal[t + 1] = One
          /\ shipped.frame.sell[t + 2] /\ ~shipped.frame.buy[t + 2]
          /\ shipped.frame.signal[t + 2] = Zero

\* Every one of the five strategies carries a position over a bar without
\* event, and one has a bar where both conditions hold.
C23_WitnessOf(name) ==
    /\ Generated(name)
    /\ \E t \in 2..NumBars :
          /\ ~shipped.frame.buy[t] /\ ~shipped.frame.sell[t]
          /\ shipped.frame.signal[t] = One

C23_WitnessRSI == C23_WitnessOf("RSIStrategy")

C23_WitnessMACD == C23_WitnessOf("MACDStrategy")

C23_WitnessVWAP == C23_WitnessOf("VWAPStrategy")

C23_WitnessMomentum == C23_WitnessOf("MomentumStrategy")

C23_WitnessMeanReversion == C23_WitnessOf("MeanReversionStrategy")

C23_WitnessBuyWins ==
    /\ \E name \in CarryForward : Generated(name)
    /\ \E t \in 1..NumBars :
          shipped.frame.buy[t] /\ shipped.frame.sell[t] /\ shipped.frame.signal[t] = One

(***************************************************************************)
(* C24: for the impulse strategies (Bollinger Bands, Stochastic            *)
(* Oscillator, ADX) the signal is not carried between bars: signal(t) is   *)
(* -1 when the sell condition holds at t (sell overrides buy on the same   *)
(* bar), 1 when only the buy condition holds, and 0 otherwise; hence under *)
(* run_backtest the realized position is 1 at bar t+1 exactly when bar t   *)
(* is a buy-only bar, and each buy event yields one bar of exposure.       *)
(***************************************************************************)
Impulse == {"BollingerBandsStrategy", "StochasticOscillatorStrategy", "ADXTrendStrategy"}

BuyOnly(t) == shipped.frame.buy[t] /\ ~shipped.frame.sell[t]

\* The signal column is the impulse of the two conditions.
ImpulseOfConditions ==
    \A t \in 1..NumBars :
        shipped.frame.signal[t] = (IF shipped.frame.sell[t] THEN R(-1, 1)
                                   ELSE IF shipped.frame.buy[t] THEN One
                                   ELSE Zero)

\* The position of a returned run is 1 exactly on the bar after a buy-only
\* bar.
OneBarOfExposure ==
    /\ ret[1].data.position[1] = Zero
    /\ \A t \in 1..(NumBars - 1) : (ret[1].data.position[t + 1] = One) <=> BuyOnly(t)
    /\ \A t \in 1..NumBars : ret[1].data.position[t] \in {Zero, One}

C24_ImpulseSignals ==
    \A name \in Impulse :
        (shipped.name = name /\ pc # "new") =>
            /\ shipped.frame.error = "none"
            /\ ImpulseOfConditions
            /\ Returned => OneBarOfExposure

\* The same for the calls of generate_signals that return.
C24_ImpulseSignalsWhereReturned ==
    \A name \in Impulse :
        Generated(name) =>
            /\ ImpulseOfConditions
            /\ Returned => OneBarOfExposure

\* A returned run with a buy-only bar followed by one bar of exposure, and
\* a bar where both conditions hold.
C24_Witness ==
    /\ \E name \in Impulse : Generated(name)
    /\ Returned
    /\ \E t \in 1..(NumBars - 1) : BuyOnly(t) /\ ret[1].data.position[t + 1] = One

C24_WitnessSellOverrides ==
    /\ \E name \in Impulse : Generated(name)
    /\ \E t \in 1..NumBars :
          shipped.frame.buy[t] /\ shipped.frame.sell[t] /\ shipped.frame.signal[t] = R(-1, 1)

\* Every one of the three strategies has buy bars and sell bars.
C24_WitnessBuy(name) == Generated(name) /\ \E t \in 1..NumBars : BuyOnly(t)

C24_WitnessSell(name) == Generated(name) /\ \E t \in 1..NumBars : shipped.frame.sell[t]

C24_WitnessBollingerBuy == C24_WitnessBuy("BollingerBandsStrategy")

C24_WitnessBollingerSell == C24_WitnessSell("BollingerBandsStrategy")

C24_WitnessStochasticBuy == C24_WitnessBuy("StochasticOscillatorStrategy")

C24_WitnessStochasticSell == C24_WitnessSell("StochasticOscillatorStrategy")

C24_WitnessADXBuy == C24_WitnessBuy("ADXTrendStrategy")

C24_WitnessADXSell == C24_WitnessSell("ADXTrendStrategy")

(***************************************************************************)
(* C26: RSIStrategy enters long (signal 0 -> 1) only at a bar where RSI    *)
(* crosses upward through the oversold line: the RSI computed from a full  *)
(* rsi_period window is > oversold at that bar and the RSI computed from a *)
(* full window at the previous bar was <= oversold; it never enters at the *)
(* end of the warm-up merely because the indicator was still undefined on  *)
(* the previous bar, or because the loss average was zero.                 *)
(***************************************************************************)

\* The price changes of the rsi_period bars up to t, when all of them
\* exist (t > rsi_period).
Changes(t) ==
    [i \in 1..shipped.params.rsi_period |->
        Sub(data.Close[t - shipped.params.rsi_period + i],
            data.Close[t - shipped.params.rsi_period + i - 1])]

Rises(t) == [i \in DOMAIN Changes(t) |-> IF Gt(Changes(t)[i], Zero) THEN Changes(t)[i] ELSE Zero]

Falls(t) == [i \in DOMAIN Changes(t) |-> IF Lt(Changes(t)[i], Zero) THEN Neg(Changes(t)[i]) ELSE Zero]

\* RSI over a full window: 100 - 100 / (1 + average rise / average fall),
\* 100 when there are rises and no fall, undefined when the window has
\* neither or is not full.
FullWindowRSI(t) ==
    IF t <= shipped.params.rsi_period THEN NaN
    ELSE LET rise == SumSkipNa(Rises(t), shipped.params.rsi_period)
             fall == SumSkipNa(Falls(t), shipped.params.rsi_period)
         IN  IF fall = Zero THEN (IF rise = Zero THEN NaN ELSE R(100, 1))
             ELSE Sub(R(100, 1), Div(R(100, 1), Add(One, Div(rise, fall))))

Enters(t) == shipped.frame.signal[t] = One /\ Carried(shipped.frame.signal, t) = Zero

RealCrossing(t) ==
    /\ t >= 2
    /\ Gt(FullWindowRSI(t), shipped.params.oversold)
    /\ Le(FullWindowRSI(t - 1), shipped.params.oversold)

C26_RSIEntersOnRealCrossing ==
    Generated("RSIStrategy") => \A t \in 1..NumBars : Enters(t) => RealCrossing(t)

\* An entry at a real crossing; an entry on the first bar with a full
\* window; an entry after a window without any price change.
C26_WitnessRealCrossing ==
    /\ Generated("RSIStrategy")
    /\ \E t \in 1..NumBars : Enters(t) /\ RealCrossing(t)

C26_WitnessWarmUpEntry ==
    /\ Generated("RSIStrategy")
    /\ \E t \in 1..NumBars :
          Enters(t) /\ t = shipped.params.rsi_period + 1 /\ ~IsNaN(FullWindowRSI(t))

C26_WitnessFlatEntry ==
    /\ Generated("RSIStrategy")
    /\ \E t \in 1..NumBars :
          /\ Enters(t)
          /\ t > shipped.params.rsi_period + 1
          /\ IsNaN(FullWindowRSI(t - 1))

(***************************************************************************)
(* C25: for every bar series whose Close values are all defined, the       *)
(* stateful crossover loop of SimpleMovingAverageStrategy.generate_signals *)
(* and the vectorized legacy function sma_crossover_strategy (same         *)
(* windows, short_window <= long_window) produce the same signal at every  *)
(* bar: signal(t) = 1 exactly when both moving averages are defined at t   *)
(* and SMA_short(t) > SMA_long(t), else 0.                                 *)
(***************************************************************************)
MovingAverages == {"SimpleMovingAverageStrategy", "sma_crossover_strategy"}

\* The average of the w closes up to bar t; undefined before bar w.
Average(w, t) ==
    IF t < w THEN NaN
    ELSE Div(SumSkipNa([i \in 1..w |-> data.Close[t - w + i]], w), R(w, 1))

ShortAboveLong(t) ==
    Gt(Average(shipped.params.short_window, t), Average(shipped.params.long_window, t))

AboveSignal == [t \in 1..NumBars |-> IF ShortAboveLong(t) THEN One ELSE Zero]

C25_CrossoverLoopEqualsVectorized ==
    \A name \in MovingAverages :
        Generated(name) =>
            /\ shipped.frame.signal = AboveSignal
            /\ SimpleMovingAverageStrategy(data, shipped.params).signal
                   = sma_crossover_strategy(data, shipped.params, shipped.build)

\* The same where an assignment through df['signal'][rows] reaches df.
C25_EqualUnderWriteThrough ==
    \A name \in MovingAverages :
        (Generated(name) /\ shipped.build = "pandas2") =>
            /\ shipped.frame.signal = AboveSignal
            /\ SimpleMovingAverageStrategy(data, shipped.params).signal
                   = sma_crossover_strategy(data, shipped.params, shipped.build)

\* The loop alone is the comparison of the two averages.
C25_CrossoverLoopIsComparison ==
    Generated("SimpleMovingAverageStrategy") => shipped.frame.signal = AboveSignal

\* A series where the short average is above the long one at some bar and
\* not above at a later bar.
C25_Witness ==
    /\ \E name \in MovingAverages : Generated(name)
    /\ shipped.build = "pandas2"
    /\ \E t \in 1..(NumBars - 1) :
          /\ ShortAboveLong(t) /\ shipped.frame.signal[t] = One
          /\ ~ShortAboveLong(t + 1) /\ shipped.frame.signal[t + 1] = Zero

(***************************************************************************)
(* C27: degenerate denominators inside strategies never raise: for a       *)
(* window with zero volume sum (VWAP), zero high-low range (Stochastic),   *)
(* zero average loss (RSI) or zero true range / zero DI sum (ADX),         *)
(* generate_signals completes and returns a signal for every bar, and a    *)
(* bar whose indicator is undefined for that reason triggers neither a buy *)
(* nor a sell, so the carried position (or 0 for the impulse strategies)   *)
(* is emitted.                                                             *)
(***************************************************************************)
Guarded == {"VWAPStrategy", "StochasticOscillatorStrategy", "RSIStrategy", "ADXTrendStrategy"}

\* The bars of the window of w bars ending at t.
BarsOfWindow(w, t) == (t - w + 1)..t

\* No volume in the lookback window ending at t.
ZeroVolume(t) ==
    /\ t >= shipped.params.lookback_period
    /\ \A u \in BarsOfWindow(shipped.params.lookback_period, t) : data.Volume[u] = Zero

\* Highest high = lowest low in the k_period window ending at t.
ZeroRange(t) ==
    /\ t >= shipped.params.k_period
    /\ \A u, v \in BarsOfWindow(shipped.params.k_period, t) : data.High[u] = data.Low[v]

\* No price change in the rsi_period window ending at t: average gain and
\* average loss are both zero.
ZeroGainAndLoss(t) ==
    /\ t > shipped.params.rsi_period
    /\ \A u \in BarsOfWindow(shipped.params.rsi_period, t) : data.Close[u] = data.Close[u - 1]

\* No true range in the adx_period window ending at t.
ZeroTrueRange(t) ==
    /\ t > shipped.params.adx_period
    /\ \A u \in BarsOfWindow(shipped.params.adx_period, t) :
          data.High[u] = data.Low[u] /\ data.High[u] = data.Close[u - 1]

Degenerate(t) ==
    CASE shipped.name = "VWAPStrategy" -> ZeroVolume(t)
      [] shipped.name = "StochasticOscillatorStrategy" -> ZeroRange(t)
      [] shipped.name = "RSIStrategy" -> ZeroGainAndLoss(t)
      [] shipped.name = "ADXTrendStrategy" -> ZeroTrueRange(t)

\* What a bar without event emits.
Neutral(t) ==
    IF shipped.name \in Impulse THEN Zero ELSE Carried(shipped.frame.signal, t)

NothingTriggered(t) ==
    /\ ~shipped.frame.buy[t]
    /\ ~shipped.frame.sell[t]
    /\ shipped.frame.signal[t] = Neutral(t)

C27_DegenerateDenominators ==
    \A name \in Guarded :
        (shipped.name = name /\ pc # "new") =>
            /\ shipped.frame.error = "none"
            /\ Len(shipped.frame.signal) = NumBars
            /\ \A t \in 1..NumBars : Degenerate(t) => NothingTriggered(t)

\* The part that holds: VWAP with a window without volume.
C27_VWAPWithoutVolume ==
    Generated("VWAPStrategy") =>
        /\ Len(shipped.frame.signal) = NumBars
        /\ \A t \in 1..NumBars : Degenerate(t) => NothingTriggered(t) /\ IsNaN(shipped.frame.value[t])

C27_WitnessVWAP ==
    /\ Generated("VWAPStrategy")
    /\ \E t \in 1..NumBars : Degenerate(t)
    /\ \E t \in 1..NumBars : shipped.frame.buy[t] \/ shipped.frame.sell[t]

\* A flat window after a rise: the rsi column falls from 100 to 0 and the
\* strategy sells.
C27_WitnessRSISellsOnFlatWindow ==
    /\ Generated("RSIStrategy")
    /\ \E t \in 1..NumBars : Degenerate(t) /\ shipped.frame.sell[t]

\* A window without range whose k_percent is filled from a later bar.
C27_WitnessStochasticBackfilled ==
    /\ Generated("StochasticOscillatorStrategy")
    /\ \E t \in 1..NumBars : Degenerate(t) /\ ~IsNaN(shipped.frame.value[t])

\* Where generate_signals returns, a degenerate window triggers nothing in
\* the strategies other than RSI.
C27_NothingTriggeredWhereReturned ==
    \A name \in Guarded \ {"RSIStrategy"} :
        Generated(name) =>
            /\ Len(shipped.frame.signal) = NumBars
            /\ \A t \in 1..NumBars : Degenerate(t) => NothingTriggered(t)

C27_WitnessADX ==
    /\ Generated("ADXTrendStrategy")
    /\ \E t \in 1..NumBars : Degenerate(t)
    /\ \E t \in 1..NumBars : shipped.frame.buy[t] \/ shipped.frame.sell[t]

(***************************************************************************)
(* C28: run_backtest and every shipped strategy leave the caller's bar     *)
(* series unchanged (same rows, same columns, same values after the call   *)
(* as before, whether the call succeeds or fails), so one bar series can   *)
(* be reused for any sequence of backtests, and each result's derived      *)
(* table is a separate object: the derived columns are in the result's     *)
(* table and not in the caller's.                                          *)
(***************************************************************************)
C28_CallerBarsUnchanged ==
    /\ [][data' = data]_vars
    /\ [](Returned => /\ DerivedColumns \subseteq DOMAIN ret[1].data
                      /\ DerivedColumns \cap data.columns = {}
                      /\ ret[1].data.Close = data.Close)

\* A strategy's table was generated from the bars and a backtest over the
\* same bars returned its derived table.
C28_Witness ==
    /\ \E o \in StrategyObjects : Generated(o.name)
    /\ Returned
    /\ NumBars >= 2
    /\ DerivedColumns \subseteq DOMAIN ret[1].data
    /\ data.columns = BarColumns

\* A call that raised, with the bars as they were.
C28_WitnessRaised ==
    /\ pc = "raised"
    /\ shipped.frame.error # "none"
    /\ NumBars >= 2
    /\ data.columns = BarColumns

====
